---- MODULE Spec2Model ----
(***************************************************************************)
(* Model of src/minesweeper.py: the Minesweeper board, the Sentence class  *)
(* and the MinesweeperAI knowledge engine (add_knowledge, make_safe_move,  *)
(* make_random_move).                                                      *)
(***************************************************************************)
EXTENDS Integers, FiniteSets, Sequences, TLC

\* ---------------------------------------------------------------- bounds
MaxHeight == 2
MaxWidth == 4
MaxMines == 3
MaxMoves == 5
MaxClues == 3
MaxCalls == 2
MaxSentence == 3

VARIABLES
    height,      \* MinesweeperAI.height / Minesweeper.height
    width,       \* MinesweeperAI.width / Minesweeper.width
    board,       \* Minesweeper.mines: the true mine cells
    moves_made,  \* MinesweeperAI.moves_made
    mines,       \* MinesweeperAI.mines
    safes,       \* MinesweeperAI.safes
    knowledge,   \* MinesweeperAI.knowledge: list of Sentences
    calls,       \* how many add_knowledge calls the driver has made
    call,        \* the last call made by the driver, with its arguments
    ret,         \* the value that call returned: None or <<cell>>
    raised       \* the exception that call raised, NoError if it returned

vars == <<height, width, board, moves_made, mines, safes, knowledge,
          calls, call, ret, raised>>

None == <<>>
Some(cell) == <<cell>>
NoError == "NoError"
PreconditionError == "PreconditionError"

Abs(n) == IF n < 0 THEN -n ELSE n

\* every cell of the grid
Cells == (0 .. height - 1) \X (0 .. width - 1)

\* ------------------------------------------------------------ Minesweeper
nearby_mines(cell) ==
    Cardinality({c \in (cell[1] - 1 .. cell[1] + 1) \X (cell[2] - 1 .. cell[2] + 1) :
                    /\ c # cell
                    /\ 0 <= c[1] /\ c[1] < height
                    /\ 0 <= c[2] /\ c[2] < width
                    /\ c \in board})

\* --------------------------------------------------------------- Sentence
Sentence(cells, count) == [cells |-> cells, count |-> count]

\* tests the count alone, as known_safes does
known_mines_by_count(s) == IF s.count > 0 THEN s.cells ELSE {}

known_mines(s) == IF Cardinality(s.cells) = s.count THEN s.cells ELSE {}

\* copies the test of known_mines
known_safes_as_mines(s) == IF Cardinality(s.cells) = s.count THEN s.cells ELSE {}

known_safes(s) == IF s.count = 0 THEN s.cells ELSE {}

\* decrements without looking for the cell
Sentence_mark_mine_unguarded(s, cell) ==
    [cells |-> s.cells \ {cell}, count |-> s.count - 1]

Sentence_mark_mine(s, cell) ==
    IF cell \in s.cells
    THEN [cells |-> s.cells \ {cell}, count |-> s.count - 1]
    ELSE s

\* leaves the cell in
Sentence_mark_safe_keeps(s, cell) == s

\* discards the cell and decrements, as mark_mine does
Sentence_mark_safe_decrements(s, cell) ==
    IF cell \in s.cells
    THEN [cells |-> s.cells \ {cell}, count |-> s.count - 1]
    ELSE s

Sentence_mark_safe(s, cell) == [s EXCEPT !.cells = @ \ {cell}]

\* ---------------------------------------------------------- MinesweeperAI
neighbors(cell) ==
    {c \in (cell[1] - 1 .. cell[1] + 1) \X (cell[2] - 1 .. cell[2] + 1) :
        /\ c # cell
        /\ 0 <= c[1] /\ c[1] < height
        /\ 0 <= c[2] /\ c[2] < width}

mark_mine(kb, cell) == [i \in DOMAIN kb |-> Sentence_mark_mine(kb[i], cell)]

mark_safe(kb, cell) == [i \in DOMAIN kb |-> Sentence_mark_safe(kb[i], cell)]

\* list.remove(x): drops the first element equal to x; the list is left as
\* it is when there is none (the ValueError is swallowed by the caller)
RECURSIVE ListRemove(_, _)
ListRemove(list, x) ==
    IF list = <<>> THEN <<>>
    ELSE IF Head(list) = x THEN Tail(list)
    ELSE <<Head(list)>> \o ListRemove(Tail(list), x)

InList(x, list) == \E i \in DOMAIN list : list[i] = x

\* the inner loops of mark_mines_safes over the cells of one sentence
\* marks the sentences and forgets to record the mine
RECURSIVE MarkMineCells_not_recorded(_, _)
MarkMineCells_not_recorded(ai, cs) ==
    IF cs = {} THEN ai
    ELSE LET cell == CHOOSE c \in cs : TRUE
         IN  MarkMineCells_not_recorded([ai EXCEPT !.knowledge = mark_mine(@, cell)],
                                        cs \ {cell})

RECURSIVE MarkMineCells(_, _)
MarkMineCells(ai, cs) ==
    IF cs = {} THEN ai
    ELSE LET cell == CHOOSE c \in cs : TRUE
         IN  MarkMineCells([ai EXCEPT !.knowledge = mark_mine(@, cell),
                                      !.mines = @ \cup {cell}],
                           cs \ {cell})

RECURSIVE MarkSafeCells(_, _)
MarkSafeCells(ai, cs) ==
    IF cs = {} THEN ai
    ELSE LET cell == CHOOSE c \in cs : TRUE
             next == IF cell \notin ai.moves_made
                     THEN [ai EXCEPT !.knowledge = mark_safe(@, cell),
                                     !.safes = @ \cup {cell}]
                     ELSE ai
         IN  MarkSafeCells(next, cs \ {cell})

\* mark_mines_safes from the i-th sentence of the list on
RECURSIVE MarkFrom(_, _)
MarkFrom(ai, i) ==
    IF i > Len(ai.knowledge) THEN ai
    ELSE LET sentence == ai.knowledge[i]
             mines_of_sentence == known_mines(sentence)
             safes_of_sentence == known_safes(sentence)
         IN  MarkFrom(MarkSafeCells(MarkMineCells(ai, mines_of_sentence),
                                    safes_of_sentence),
                      i + 1)

mark_mines_safes(ai) == MarkFrom(ai, 1)

RECURSIVE CleanEmptyFrom(_, _, _)
CleanEmptyFrom(kb, clone, i) ==
    IF i > Len(clone) THEN kb
    ELSE IF clone[i].cells = {}
         THEN CleanEmptyFrom(ListRemove(kb, clone[i]), clone, i + 1)
         ELSE CleanEmptyFrom(kb, clone, i + 1)

\* leaves the empty sentences in
clean_empty_sentences_skipped(ai) == ai

clean_empty_sentences(ai) ==
    [ai EXCEPT !.knowledge = CleanEmptyFrom(@, @, 1)]

\* the loops of clean_identical_sentences: indx runs over the clone and i
\* over the positions after it; every equal pair removes one sentence
RECURSIVE CleanIdenticalFrom(_, _, _, _)
CleanIdenticalFrom(kb, clone, indx, i) ==
    IF indx > Len(clone) THEN kb
    ELSE IF i > Len(clone) THEN CleanIdenticalFrom(kb, clone, indx + 1, indx + 2)
    ELSE IF clone[indx] = clone[i]
         THEN CleanIdenticalFrom(ListRemove(kb, clone[indx]), clone, indx, i + 1)
         ELSE CleanIdenticalFrom(kb, clone, indx, i + 1)

clean_identical_sentences(ai) ==
    [ai EXCEPT !.knowledge = CleanIdenticalFrom(@, @, 1, 2)]

\* leaves safes as it is
clean_exceuted_safes_skipped(ai) == ai

\* empties safes on finding a cell of moves_made in it
clean_exceuted_safes_clears(ai) ==
    [ai EXCEPT !.safes = IF @ \cap ai.moves_made # {} THEN {} ELSE @]

clean_exceuted_safes(ai) ==
    [ai EXCEPT !.safes = {cell \in @ : cell \notin ai.moves_made}]

\* without the `continue` after a known mine
NewSentenceCells_keep_mines(ai, cell) ==
    {cell1 \in neighbors(cell) :
        ~(cell1 \in ai.safes \/ cell1 \in ai.moves_made)}

\* add_knowledge, lines 215-234: the sentence of the revealed cell
NewSentenceCells(ai, cell) ==
    {cell1 \in neighbors(cell) :
        /\ cell1 \notin ai.mines
        /\ ~(cell1 \in ai.safes \/ cell1 \in ai.moves_made)}

\* without the decrement for a known mine
NewSentenceCount_no_decrement(ai, cell, count) == count

NewSentenceCount(ai, cell, count) ==
    count - Cardinality({cell1 \in neighbors(cell) : cell1 \in ai.mines})

AddNewSentence(ai, cell, count) ==
    LET cells == NewSentenceCells(ai, cell)
        new_sentence == Sentence(cells, NewSentenceCount(ai, cell, count))
    IN  IF cells # {} /\ ~InList(new_sentence, ai.knowledge)
        THEN [ai EXCEPT !.knowledge = Append(@, new_sentence)]
        ELSE ai

\* add_knowledge, lines 256-301: the sentences inferred from subsets
\* the count of the larger sentence, not the difference
SubsetCount_no_subtract(sentence, sentence1) == sentence1.count

SubsetCount(sentence, sentence1) == Abs(sentence1.count - sentence.count)

SubsetCandidate(ai, sentence, sentence1) ==
    IF sentence.cells \ sentence1.cells = {}
    THEN LET is_subset == {c \in sentence1.cells \ sentence.cells :
                              ~(c \in ai.moves_made \/ c \in ai.safes \/ c \in ai.mines)}
             new_sentence == Sentence(is_subset, SubsetCount(sentence, sentence1))
         IN  IF is_subset # {} /\ ~InList(new_sentence, ai.knowledge)
             THEN <<new_sentence>>
             ELSE <<>>
    ELSE <<>>

RECURSIVE SubSentencesFrom(_, _, _)
SubSentencesFrom(ai, i, j) ==
    LET n == Len(ai.knowledge)
    IN  IF i > n THEN <<>>
        ELSE IF j > n THEN SubSentencesFrom(ai, i + 1, 1)
        ELSE SubsetCandidate(ai, ai.knowledge[i], ai.knowledge[j])
                 \o SubSentencesFrom(ai, i, j + 1)

\* computes the inferred sentences and does not add them
InferSubsets_not_added(ai) == ai

InferSubsets(ai) ==
    [ai EXCEPT !.knowledge = @ \o SubSentencesFrom(ai, 1, 1)]

\* add_knowledge up to its first call of clean_identical_sentences
AtFirstCleaning(ai, cell, count) ==
    LET s1 == [ai EXCEPT !.moves_made = @ \cup {cell}]
        s2 == [s1 EXCEPT !.knowledge = mark_safe(@, cell)]
        s3 == AddNewSentence(s2, cell, count)
    IN  clean_empty_sentences(mark_mines_safes(s3))

\* add_knowledge up to the search for subsets
AtSubsets(ai, cell, count) ==
    clean_identical_sentences(AtFirstCleaning(ai, cell, count))

\* add_knowledge up to its second call of clean_identical_sentences
AtSecondCleaning(ai, cell, count) ==
    clean_empty_sentences(mark_mines_safes(InferSubsets(AtSubsets(ai, cell, count))))

\* with the check of the arguments that the code does not make
add_knowledge_checked(ai, cell, count) ==
    IF cell \in ai.moves_made \/ count \notin 0 .. Cardinality(neighbors(cell))
    THEN [ai EXCEPT !.raised = PreconditionError]
    ELSE LET s6 == clean_identical_sentences(AtSecondCleaning(ai, cell, count))
         IN  [clean_exceuted_safes(s6) EXCEPT !.raised = NoError]

add_knowledge(ai, cell, count) ==
    LET s6 == clean_identical_sentences(AtSecondCleaning(ai, cell, count))
    IN  [clean_exceuted_safes(s6) EXCEPT !.raised = NoError]

\* scans the grid instead of safes
make_safe_move_any_cell(ai) ==
    LET ok == {cell \in Cells : cell \notin ai.moves_made /\ cell \notin ai.mines}
    IN  IF ok = {} THEN {None} ELSE {Some(cell) : cell \in ok}

make_safe_move(ai) ==
    LET ok == {cell \in ai.safes : cell \notin ai.moves_made /\ cell \notin ai.mines}
    IN  IF ok = {} THEN {None} ELSE {Some(cell) : cell \in ok}

\* make_random_move: rows is the outcome of random.randrange(height), and
\* cols[row] that of the random.randrange(width) drawn for that row
RECURSIVE RandomScan(_, _, _, _, _)
RandomScan(ai, rows, cols, row, col) ==
    IF row >= rows THEN None
    ELSE IF col >= cols[row] THEN RandomScan(ai, rows, cols, row + 1, 0)
    ELSE IF <<row, col>> \notin ai.mines /\ <<row, col>> \notin ai.moves_made
         THEN Some(<<row, col>>)
         ELSE RandomScan(ai, rows, cols, row, col + 1)

make_random_move(ai) ==
    {RandomScan(ai, rows, cols, 0, 0) :
        rows \in 0 .. height - 1,
        cols \in [0 .. height - 1 -> 0 .. width - 1]}

\* ------------------------------------------------------------------ state
AI == [moves_made |-> moves_made, mines |-> mines, safes |-> safes,
       knowledge |-> knowledge, raised |-> raised]

InitAI ==
    /\ moves_made = {}
    /\ mines = {}
    /\ safes = {}
    /\ knowledge = <<>>
    /\ calls = 0
    /\ call = <<"init">>
    /\ ret = None
    /\ raised = NoError

Grid ==
    /\ height \in 1 .. MaxHeight
    /\ width \in 1 .. MaxWidth

\* a game: a board with some mines and a fresh engine of the same size
Init ==
    /\ Grid
    /\ board \in {b \in SUBSET Cells : Cardinality(b) <= MaxMines}
    /\ InitAI

\* a fresh engine whose clues are not tied to a board
InitFree ==
    /\ Grid
    /\ board = {}
    /\ InitAI

Call(cell, count) ==
    LET after == add_knowledge(AI, cell, count)
    IN  /\ moves_made' = after.moves_made
        /\ mines' = after.mines
        /\ safes' = after.safes
        /\ knowledge' = after.knowledge
        /\ raised' = after.raised
        /\ calls' = calls + 1
        /\ call' = <<"add_knowledge", cell, count>>
        /\ ret' = None
        /\ UNCHANGED <<height, width, board>>

\* the driver reveals a cell that is no mine and reports the board's clue
AddKnowledge ==
    /\ calls < MaxMoves
    /\ \E cell \in Cells \ (moves_made \cup board) :
          Call(cell, nearby_mines(cell))

\* a first call for a cell, with any clue the cell's neighbourhood allows
AddKnowledgeAnyClue ==
    /\ calls < MaxClues
    /\ \E cell \in Cells \ moves_made :
          \E count \in 0 .. Cardinality(neighbors(cell)) :
              Call(cell, count)

\* any call at all: a cell revealed before or a clue outside its range
AddKnowledgeUnchecked ==
    /\ calls < MaxCalls
    /\ \E cell \in Cells :
          \E count \in -1 .. Cardinality(neighbors(cell)) + 1 :
              Call(cell, count)

SafeMove ==
    /\ \E r \in make_safe_move(AI) : ret' = r
    /\ call' = <<"make_safe_move">>
    /\ raised' = NoError
    /\ UNCHANGED <<height, width, board, moves_made, mines, safes, knowledge, calls>>

RandomMove ==
    /\ \E r \in make_random_move(AI) : ret' = r
    /\ call' = <<"make_random_move">>
    /\ raised' = NoError
    /\ UNCHANGED <<height, width, board, moves_made, mines, safes, knowledge, calls>>

Next == AddKnowledge \/ SafeMove \/ RandomMove

Spec == Init /\ [][Next]_vars

NextAnyClue == AddKnowledgeAnyClue \/ SafeMove \/ RandomMove

SpecAnyClue == InitFree /\ [][NextAnyClue]_vars

NextUnchecked == AddKnowledgeUnchecked \/ SafeMove \/ RandomMove

SpecUnchecked == InitFree /\ [][NextUnchecked]_vars

\* ------------------------------------------------- a Sentence on its own
\* one Sentence over the cells of the grid, held as the only sentence of
\* the knowledge base, with a count its cells allow
InitSentence ==
    /\ Grid
    /\ board = {}
    /\ moves_made = {}
    /\ mines = {}
    /\ safes = {}
    /\ \E cells \in SUBSET Cells :
          /\ Cardinality(cells) <= MaxSentence
          /\ \E count \in 0 .. Cardinality(cells) :
                knowledge = <<Sentence(cells, count)>>
    /\ calls = 0
    /\ call = <<"init">>
    /\ ret = None
    /\ raised = NoError

SentenceMarkMine ==
    /\ \E cell \in Cells :
          /\ knowledge' = <<Sentence_mark_mine(knowledge[1], cell)>>
          /\ call' = <<"Sentence.mark_mine", cell>>
    /\ ret' = None
    /\ UNCHANGED <<height, width, board, moves_made, mines, safes, calls, raised>>

SentenceMarkSafe ==
    /\ \E cell \in Cells :
          /\ knowledge' = <<Sentence_mark_safe(knowledge[1], cell)>>
          /\ call' = <<"Sentence.mark_safe", cell>>
    /\ ret' = None
    /\ UNCHANGED <<height, width, board, moves_made, mines, safes, calls, raised>>

SentenceKnownMines ==
    /\ ret' = Some(known_mines(knowledge[1]))
    /\ call' = <<"Sentence.known_mines">>
    /\ UNCHANGED <<height, width, board, moves_made, mines, safes, knowledge,
                   calls, raised>>

SentenceKnownSafes ==
    /\ ret' = Some(known_safes(knowledge[1]))
    /\ call' = <<"Sentence.known_safes">>
    /\ UNCHANGED <<height, width, board, moves_made, mines, safes, knowledge,
                   calls, raised>>

NextSentence ==
    SentenceMarkMine \/ SentenceMarkSafe \/ SentenceKnownMines \/ SentenceKnownSafes

SpecSentence == InitSentence /\ [][NextSentence]_vars

\* ----------------------------------------------------------------- claims
Returned == call[1] = "add_knowledge"

FreeCells == Cells \ (mines \cup moves_made)

\* C1: with truthful clues on cells that are no mines, every cell of mines
\* is a mine of the board and no cell of safes is one
C1_Soundness == mines \subseteq board /\ safes \cap board = {}

C1_Witness == Returned /\ mines # {} /\ safes # {} /\ calls >= 2

\* C2: whatever the clues, within the range of the cell's neighbourhood,
\* no cell is both in safes and in mines
C2_Disjoint == safes \cap mines = {}

C2_Witness == Returned /\ safes # {} /\ mines # {} /\ calls = MaxClues

\* C3: with truthful clues every sentence of the knowledge base has
\* 0 <= count <= |cells|
C3_CountInRange ==
    \A i \in DOMAIN knowledge :
        0 <= knowledge[i].count /\ knowledge[i].count <= Cardinality(knowledge[i].cells)

C3_Witness ==
    /\ Returned /\ mines # {}
    /\ \E i \in DOMAIN knowledge :
          /\ knowledge[i].count >= 1
          /\ knowledge[i].count < Cardinality(knowledge[i].cells)

\* the step is an add_knowledge call
AddStep == calls' = calls + 1

\* the arguments of the call of this step break the precondition of
\* record_clue in the state before it
BadArguments ==
    \/ call'[2] \in moves_made
    \/ call'[3] \notin 0 .. Cardinality(neighbors(call'[2]))

\* C4 as stated: a call for a cell of moves_made, or with a clue outside
\* [0, number of neighbours], raises PreconditionError and is not processed
C4_Rejected ==
    [][AddStep /\ BadArguments
          => /\ raised' = PreconditionError
             /\ UNCHANGED <<moves_made, mines, safes, knowledge>>]_vars

\* C4 amended: such a call raises nothing and is processed as any other:
\* it returns with the cell in moves_made
C4_Processed ==
    [][AddStep /\ BadArguments
          => /\ raised' = NoError
             /\ moves_made' = moves_made \cup {call'[2]}]_vars

C4_Witness ==
    /\ Returned /\ raised = NoError
    /\ calls = 2 /\ Cardinality(moves_made) = 1
    /\ call[3] > Cardinality(neighbors(call[2]))

\* C5 as stated: make_random_move returns None only when the grid has no
\* cell outside mines and moves_made, and such a cell otherwise
C5_RandomMoveFindsFreeCell ==
    call[1] = "make_random_move"
        => IF FreeCells = {} THEN ret = None
           ELSE ret \in {Some(cell) : cell \in FreeCells}

\* C6 as stated: every cell of the grid outside mines and moves_made is a
\* possible outcome of make_random_move
C6_RandomMoveReachesEveryFreeCell ==
    \A cell \in FreeCells : Some(cell) \in make_random_move(AI)

\* C7: make_safe_move returns a cell of safes outside moves_made and mines
\* when there is one, None exactly when there is none, and changes nothing
C7_SafeMove ==
    [][call'[1] = "make_safe_move"
          => /\ LET ok == {cell \in safes : cell \notin moves_made /\ cell \notin mines}
                IN  IF ok = {} THEN ret' = None
                    ELSE ret' \in {Some(cell) : cell \in ok}
             /\ UNCHANGED <<moves_made, safes, mines, knowledge>>]_vars

C7_Witness ==
    /\ call[1] = "make_safe_move" /\ ret # None
    /\ Cardinality(safes) >= 2 /\ mines # {}

\* C8 as stated: after every add_knowledge call moves_made is a subset of
\* safes
C8_MovesInSafes == Returned => moves_made \subseteq safes

\* C8 amended: after every add_knowledge call the revealed cell is in
\* moves_made and no cell of moves_made is in safes
C8_MovesOutOfSafes ==
    /\ Returned => call[2] \in moves_made
    /\ moves_made \cap safes = {}

C8_Witness == Returned /\ calls >= 2 /\ safes # {} /\ call[3] = 0

\* C9 as stated: every cell of safes before an add_knowledge call is in
\* safes after it
C9_SafesGrow == [][safes \subseteq safes']_vars

\* C9 amended: every cell of safes before an add_knowledge call is in safes
\* after it, except the cell the call reveals
C9_SafesLoseOnlyRevealed ==
    [][safes \ safes' \subseteq moves_made' \ moves_made]_vars

C9_Witness == Returned /\ calls >= 3 /\ safes # {} /\ mines # {}

C11_FullClue ==
    [][(/\ AddStep /\ calls = 0
        /\ neighbors(call'[2]) # {}
        /\ call'[3] = Cardinality(neighbors(call'[2])))
          => /\ neighbors(call'[2]) \subseteq mines'
             /\ safes' \ moves_made' = {}
             /\ make_safe_move([moves_made |-> moves_made',
                                mines |-> mines',
                                safes |-> safes']) = {None}]_vars

C11_Witness ==
    /\ Returned /\ calls = 1
    /\ call[3] = Cardinality(neighbors(call[2])) /\ call[3] >= 3
    /\ mines = neighbors(call[2])

\* C12: Sentence.mark_mine removes the cell and takes 1 from the count when
\* the cell is in the sentence and changes nothing otherwise;
\* Sentence.mark_safe removes the cell and keeps the count; a second call
\* with the same cell changes nothing more
C12_Narrowing ==
    [][/\ call'[1] = "Sentence.mark_mine"
          => LET s == knowledge[1]
                 t == knowledge'[1]
                 cell == call'[2]
             IN  /\ cell \in s.cells
                      => t.cells = s.cells \ {cell} /\ t.count = s.count - 1
                 /\ cell \notin s.cells => t = s
                 /\ call = call' => t = s
       /\ call'[1] = "Sentence.mark_safe"
          => LET s == knowledge[1]
                 t == knowledge'[1]
                 cell == call'[2]
             IN  /\ t.cells = s.cells \ {cell}
                 /\ t.count = s.count
                 /\ call = call' => t = s]_vars

C12_Witness ==
    /\ call[1] = "Sentence.mark_mine"
    /\ call[2] \notin knowledge[1].cells
    /\ Cardinality(knowledge[1].cells) = 1
    /\ knowledge[1].count = 0

\* C13: Sentence.known_mines returns all the cells exactly when
\* count = |cells| and count > 0 and the empty set otherwise, the sentence
\* with no cells and count 0 included; known_mines and known_safes are
\* never both non-empty
C13_KnownMines ==
    LET s == knowledge[1]
    IN  /\ call[1] = "Sentence.known_mines"
           => ret = Some(IF s.count = Cardinality(s.cells) /\ s.count > 0
                         THEN s.cells ELSE {})
        /\ call[1] \in {"Sentence.known_mines", "Sentence.known_safes"}
           => ~(known_mines(s) # {} /\ known_safes(s) # {})

C13_Witness ==
    /\ call[1] = "Sentence.known_mines"
    /\ knowledge[1] = Sentence({}, 0)
    /\ ret = Some({})

Occurrences(list, x) == Cardinality({i \in DOMAIN list : list[i] = x})

\* C14 as stated: every sentence present when clean_identical_sentences is
\* called, once or several times, is present exactly once when it returns
C14_KeepsOneRepresentative ==
    [][AddStep
          => \A before \in {AtFirstCleaning(AI, call'[2], call'[3]),
                             AtSecondCleaning(AI, call'[2], call'[3])} :
                LET after == clean_identical_sentences(before)
                IN  \A i \in DOMAIN before.knowledge :
                        Occurrences(after.knowledge, before.knowledge[i]) = 1]_vars

\* C15 as stated: with truthful clues no sentence left in the knowledge
\* base when add_knowledge returns has count = 0 or count = |cells|
C15_Saturated ==
    Returned
        => \A i \in DOMAIN knowledge :
              /\ knowledge[i].count # 0
              /\ knowledge[i].count # Cardinality(knowledge[i].cells)

C17_NoEmptyNoEqual ==
    /\ \A i \in DOMAIN knowledge : knowledge[i].cells # {}
    /\ \A i, j \in DOMAIN knowledge : i # j => knowledge[i] # knowledge[j]

C17_Witness ==
    /\ Returned /\ Len(knowledge) >= 2
    /\ mines # {} /\ safes # {}

\* C18: after every add_knowledge call no cell of safes is in moves_made
C18_NoMoveInSafes == \A cell \in safes : cell \notin moves_made

C18_Witness ==
    /\ Returned /\ calls = MaxClues
    /\ Cardinality(safes) >= 2

\* C19: after every add_knowledge call no sentence of the knowledge base
\* holds a cell of moves_made, safes or mines
C19_NoDeterminedCell ==
    \A i \in DOMAIN knowledge :
        knowledge[i].cells \cap (moves_made \cup safes \cup mines) = {}

C19_Witness ==
    /\ Returned /\ knowledge # <<>>
    /\ safes # {} /\ mines # {} /\ calls >= 2

\* C20: with truthful clues the count of every sentence of the knowledge
\* base is the number of mines of the board among its cells
C20_SentencesTrue ==
    \A i \in DOMAIN knowledge :
        knowledge[i].count = Cardinality(knowledge[i].cells \cap board)

C20_Witness ==
    /\ Returned /\ Len(knowledge) >= 2 /\ mines # {}
    /\ \E i \in DOMAIN knowledge : knowledge[i].count >= 2

====
